---- MODULE Spec2Model ----
(***************************************************************************)
(* Model of paddlex/cv/nets/paddleseg/models/isanet.py (ISANet, ISAHead)   *)
(* and paddlex/utils/env.py (get_environ_info).                            *)
(*                                                                         *)
(* A tensor is its row-major flat sequence of cells together with a shape. *)
(* Multi-indices and flat offsets are 0-based as in the framework; TLA+    *)
(* sequences are 1-based, so cell k of the flat data is t[k + 1].          *)
(***************************************************************************)
EXTENDS Integers, Sequences, FiniteSets, TLC

(* ------------------------------ bounds --------------------------------- *)
\* batch sizes 1..MaxN of the feature map handed to the head
MaxN == 2
\* heights and widths 1..MaxH of the reduced feature map x
MaxH == 4
\* group factors 1..MaxP along each axis (Spec adds the factor 0)
MaxP == 3
\* highest-stage channel counts 4..MaxChan published by the backbone
MaxChan == 9
\* parallel rank counts 0..MaxRanks reported by ParallelEnv
MaxRanks == 3

(* -------------------------- program constants -------------------------- *)
\* in_channels=1024 of the auxiliary ConvBNReLU
AuxInChannels == 1024
\* out_channels=256 of the auxiliary ConvBNReLU
AuxMidChannels == 256
\* default of os.environ.get('CPU_NUM', 1)
DefaultCpuNum == 1
\* down_factor=(8, 8), the default group factor of ISANet
DefaultDownFactor == 8

None == "None"

(* ------------------------- index arithmetic ---------------------------- *)
RECURSIVE Prod(_)
Prod(shape) == IF shape = <<>> THEN 1 ELSE Head(shape) * Prod(Tail(shape))

\* stride of axis i of a row-major tensor of the given shape
Stride(shape, i) == Prod(SubSeq(shape, i + 1, Len(shape)))

\* 0-based flat offset of a 0-based multi-index
RECURSIVE RavelFrom(_, _, _)
RavelFrom(idx, shape, i) ==
    IF i > Len(shape) THEN 0
    ELSE idx[i] * Stride(shape, i) + RavelFrom(idx, shape, i + 1)

Ravel(idx, shape) == RavelFrom(idx, shape, 1)

\* 0-based multi-index of a 0-based flat offset
Unravel(k, shape) ==
    [i \in 1..Len(shape) |-> (k \div Stride(shape, i)) % shape[i]]

\* math.ceil(a / b) for a >= 0, b > 0
CeilDiv(a, b) == IF a % b = 0 THEN a \div b ELSE a \div b + 1

(* ------------------------- tensor primitives --------------------------- *)
\* Tensor.reshape: the flat data is kept, one entry -1 of the target is inferred
InferShape(target, len) ==
    LET known == Prod([i \in 1..Len(target) |->
                         IF target[i] = -1 THEN 1 ELSE target[i]])
    IN  [i \in 1..Len(target) |->
           IF target[i] = -1 THEN len \div known ELSE target[i]]

\* Tensor.transpose(perm) with 0-based perm: out.shape[i] = shape[perm[i]] and
\* out[j_0..j_k] = in[i_0..i_k] where i_perm[a] = j_a
TransposeShape(shape, perm) == [i \in 1..Len(shape) |-> shape[perm[i] + 1]]

Transpose(data, shape, perm) ==
    LET oshape == TransposeShape(shape, perm)
    IN  [k \in 1..Len(data) |->
           LET j == Unravel(k - 1, oshape)
               i == [a \in 1..Len(shape) |->
                       j[(CHOOSE b \in 1..Len(perm) : perm[b] = a - 1)]]
           IN  data[Ravel(i, shape) + 1]]

\* a tensor: flat row-major data and its shape
Tensor(data, shape) == [data |-> data, shape |-> shape]

Reshape(t, target) == Tensor(t.data, InferShape(target, Len(t.data)))

Permute(t, perm) ==
    Tensor(Transpose(t.data, t.shape, perm), TransposeShape(t.shape, perm))

\* F.pad(x, [left, right, top, bottom]) on an NCHW tensor: constant mode, value 0
Pad(t, padding) ==
    LET left   == padding[1]
        top    == padding[3]
        h      == t.shape[3]
        w      == t.shape[4]
        oshape == <<t.shape[1], t.shape[2],
                    h + padding[3] + padding[4], w + padding[1] + padding[2]>>
    IN  Tensor([k \in 1..Prod(oshape) |->
                  LET j  == Unravel(k - 1, oshape)
                      hh == j[3] - top
                      ww == j[4] - left
                  IN  IF hh >= 0 /\ hh < h /\ ww >= 0 /\ ww < w
                      THEN t.data[Ravel(<<j[1], j[2], hh, ww>>, t.shape) + 1]
                      ELSE 0],
               oshape)

\* feat[:, :, h0:h0 + h, w0:w0 + w]; a Python slice is clipped to the axis
Crop(t, h0, h, w0, w) ==
    LET hs     == t.shape[3]
        ws     == t.shape[4]
        hn     == IF h0 + h <= hs THEN h ELSE IF hs > h0 THEN hs - h0 ELSE 0
        wn     == IF w0 + w <= ws THEN w ELSE IF ws > w0 THEN ws - w0 ELSE 0
        oshape == <<t.shape[1], t.shape[2], hn, wn>>
    IN  Tensor([k \in 1..Prod(oshape) |->
                  LET j == Unravel(k - 1, oshape)
                  IN  t.data[Ravel(<<j[1], j[2], j[3] + h0, j[4] + w0>>,
                                   t.shape) + 1]],
               oshape)

\* The cells of the (padded) map at the moment `feat` is bound: each cell holds
\* its value v and the flat offset `at` it has in the padded map, so that the
\* later reshapes and transposes can be followed cell by cell.
Cells(t) == Tensor([k \in 1..Len(t.data) |-> [v |-> t.data[k], at |-> k - 1]],
                   t.shape)

Values(t) == [k \in 1..Len(t.data) |-> t.data[k].v]

\* list[i] of Python: negative indices count from the end
PyIndexOk(len, i) == -len <= i /\ i < len
PyIndex(seq, i) == IF i >= 0 THEN seq[i + 1] ELSE seq[Len(seq) + i + 1]

(* ------------------------------ ISAHead -------------------------------- *)
\* variant: the reduced channel count rounded up
InterChannelsCeil(in_channels) == CeilDiv(in_channels, 4)

\* inter_channels = self.in_channels // 4
InterChannels(in_channels) == in_channels \div 4

\* Q_h, Q_w = math.ceil(h / P_h), math.ceil(w / P_w)
\* pad_h, pad_w = Q_h * P_h - h, Q_w * P_w - w
GridOf(h, w, P_h, P_w) ==
    LET Q_h == CeilDiv(h, P_h)
        Q_w == CeilDiv(w, P_w)
    IN  [Q_h |-> Q_h, Q_w |-> Q_w,
         pad_h |-> Q_h * P_h - h, pad_w |-> Q_w * P_w - w]

\* h / P_h and w / P_w raise ZeroDivisionError on a zero divisor
GridRaises(P_h, P_w) == P_h = 0 \/ P_w = 0

\* variant: the larger half of an odd deficit put on the left / top
PaddingCeilFirst(pad_h, pad_w) ==
    <<pad_w - pad_w \div 2, pad_w \div 2, pad_h - pad_h \div 2, pad_h \div 2>>

\* padding = [pad_w // 2, pad_w - pad_w // 2, pad_h // 2, pad_h - pad_h // 2]
Padding(pad_h, pad_w) ==
    <<pad_w \div 2, pad_w - pad_w \div 2, pad_h \div 2, pad_h - pad_h \div 2>>

\* if pad_h > 0 or pad_w > 0: feat = F.pad(x, padding) else: feat = x
PadToGrid(xt, g) ==
    IF g.pad_h > 0 \/ g.pad_w > 0
    THEN Pad(xt, Padding(g.pad_h, g.pad_w))
    ELSE xt

\* variant: the group axes (Q_h, Q_w) folded into the batch instead of (P_h, P_w)
GlobalLayoutGroupsInBatch(t, n, c, Q_h, P_h, Q_w, P_w) ==
    Reshape(Permute(Reshape(t, <<n, c, Q_h, P_h, Q_w, P_w>>),
                    <<0, 2, 4, 1, 3, 5>>),
            <<-1, c, Q_h, Q_w>>)

\* feat.reshape([n, c, Q_h, P_h, Q_w, P_w])
\*     .transpose([0, 3, 5, 1, 2, 4]).reshape([-1, c, Q_h, Q_w])
GlobalLayout(t, n, c, Q_h, P_h, Q_w, P_w) ==
    Reshape(Permute(Reshape(t, <<n, c, Q_h, P_h, Q_w, P_w>>),
                    <<0, 3, 5, 1, 2, 4>>),
            <<-1, c, Q_h, Q_w>>)

\* variant: the reshape to the local shape without the transpose
LocalLayoutUntransposed(t, n, c, Q_h, P_h, Q_w, P_w) ==
    Reshape(Reshape(t, <<n, P_h, P_w, c, Q_h, Q_w>>), <<-1, c, P_h, P_w>>)

\* feat.reshape([n, P_h, P_w, c, Q_h, Q_w])
\*     .transpose([0, 4, 5, 3, 1, 2]).reshape([-1, c, P_h, P_w])
LocalLayout(t, n, c, Q_h, P_h, Q_w, P_w) ==
    Reshape(Permute(Reshape(t, <<n, P_h, P_w, c, Q_h, Q_w>>),
                    <<0, 4, 5, 3, 1, 2>>),
            <<-1, c, P_h, P_w>>)

\* feat.reshape([n, Q_h, Q_w, c, P_h, P_w])
\*     .transpose([0, 3, 1, 4, 2, 5]).reshape([n, c, P_h * Q_h, P_w * Q_w])
Recompose(t, n, c, Q_h, P_h, Q_w, P_w) ==
    Reshape(Permute(Reshape(t, <<n, Q_h, Q_w, c, P_h, P_w>>),
                    <<0, 3, 1, 4, 2, 5>>),
            <<n, c, P_h * Q_h, P_w * Q_w>>)

\* variant: the crop taken from the corner instead of from the recorded offsets
CropBackFromOrigin(t, g, h, w) ==
    IF g.pad_h > 0 \/ g.pad_w > 0 THEN Crop(t, 0, h, 0, w) ELSE t

\* if pad_h > 0 or pad_w > 0:
\*     feat = feat[:, :, pad_h // 2:pad_h // 2 + h, pad_w // 2:pad_w // 2 + w]
CropBack(t, g, h, w) ==
    IF g.pad_h > 0 \/ g.pad_w > 0
    THEN Crop(t, g.pad_h \div 2, h, g.pad_w \div 2, w)
    ELSE t

\* SelfAttentionBlock.forward on a (B, C, S1, S2) tensor.  The attention block
\* keeps the shape (out_channels = in_channels); every output cell of batch
\* item b is a weighted sum over all cells of batch item b and of no other.
\* "identity" is the attention that returns its input; "mix" sums the values of
\* the batch item (uniform weights).
RECURSIVE SumSeq(_, _, _)
SumSeq(data, from, to) ==
    IF from > to THEN 0 ELSE data[from].v + SumSeq(data, from + 1, to)

SelfAttention(mode, t) ==
    IF mode = "identity" THEN t
    ELSE LET per == Prod(Tail(t.shape))
         IN  Tensor([k \in 1..Len(t.data) |->
                       LET b == (k - 1) \div per
                       IN  [v  |-> SumSeq(t.data, b * per + 1, (b + 1) * per),
                            at |-> t.data[k].at]],
                    t.shape)

\* variant: only a list that is too short fails to unpack
UnpackRaisesTooFew(list) == Len(list) < 2

\* C3, C4 = feat_list raises ValueError unless the list has two entries
UnpackRaises(list) == Len(list) # 2

\* the reduced map x = self.in_conv(C4): one distinct value per element
Labels(shape) == Tensor([k \in 1..Prod(shape) |-> k], shape)

(* ------------------------------- state --------------------------------- *)
VARIABLES
    pc,                \* where the construction / forward call stands
    err,               \* the exception that ended it, or None
    backbone,          \* the backbone: published feat_channels, length of its output list
    args,              \* the arguments ISANet is constructed with
    image,             \* n, h, w of the highest-stage feature map the backbone returns
    backbone_indices,  \* ISANet.backbone_indices
    head,              \* the ISAHead built by ISANet.__init__, or NoHead
    attention,         \* which attention primitive the two relation blocks are
    feat_list,         \* feats selected by ISANet.forward, as handed to the head
    x,                 \* x = self.in_conv(C4)
    grid,              \* Q_h, Q_w, pad_h, pad_w
    feat,              \* the local `feat` of ISAHead.forward
    output,            \* the local `output` of ISAHead.forward
    logit_list,        \* the list ISAHead.forward / ISANet.forward returns
    compiled_with_cuda, device, nranks,   \* what paddle reports to get_environ_info
    environ,           \* os.environ: CPU_NUM and CUDA_VISIBLE_DEVICES
    env_info,          \* the dict get_environ_info returns, or NoInfo
    env_pc             \* "call", "returned", or the exception raised

netvars == <<pc, err, backbone, args, image, backbone_indices, head, attention,
             feat_list, x, grid, feat, output, logit_list>>
envvars == <<compiled_with_cuda, device, nranks, environ, env_info, env_pc>>
vars == <<netvars, envvars>>

(* --------------------------- ISANet.__init__ --------------------------- *)
\* variant: non-positive entries of the group factor replaced by 1
StoredFactorClamped(down_factor) ==
    <<IF down_factor[1] < 1 THEN 1 ELSE down_factor[1],
      IF down_factor[2] < 1 THEN 1 ELSE down_factor[2]>>

\* self.down_factor = down_factor
StoredFactor(down_factor) == down_factor

\* ISAHead.__init__: the fields it stores and the channel counts of its layers
HeadOf(in_channels, num_classes, down_factor, enable_auxiliary_loss) ==
    LET last  == PyIndex(in_channels, -1)
        inter == InterChannels(last)
    IN  [built                 |-> TRUE,
         in_channels           |-> last,
         inter_channels        |-> inter,
         down_factor           |-> StoredFactor(down_factor),
         enable_auxiliary_loss |-> enable_auxiliary_loss,
         num_classes           |-> num_classes,
         out_conv_in           |-> inter * 2,
         aux_in                |-> AuxInChannels,
         aux_mid               |-> AuxMidChannels]

\* no head: ISAHead.__init__ has not run, or was not reached
NoHead == [built |-> FALSE]

\* in_channels = [self.backbone.feat_channels[i] for i in backbone_indices]
SelectOk(len, indices) == \A k \in 1..Len(indices) : PyIndexOk(len, indices[k])
Select(list, indices) == [k \in 1..Len(indices) |-> PyIndex(list, indices[k])]

\* in_channels[-1] of ISAHead.__init__ needs a non-empty list
CtorRaises(bb, indices) ==
    \/ ~SelectOk(Len(bb.feat_channels), indices)
    \/ indices = <<>>

IndexTuples ==
    {<<1, 2>>, <<0, 2>>, <<-2, -1>>, <<2>>, <<0, 1, 2>>, <<>>, <<1, 3>>}
DownFactors ==
    {<<0, 1>>, <<2, 0>>, <<1, 1>>, <<2, 2>>, <<1, 2>>,
     <<DefaultDownFactor, DefaultDownFactor>>}
NumClasses == {2, 19}
AttentionModes == {"identity", "mix"}
Arguments ==
    [backbone_indices : IndexTuples, down_factor : DownFactors,
     num_classes : NumClasses, enable_auxiliary_loss : BOOLEAN]

Construct ==
    /\ pc = "new"
    /\ backbone_indices' = args.backbone_indices
    /\ IF CtorRaises(backbone, args.backbone_indices)
       THEN /\ pc' = "raised"
            /\ err' = "IndexError"
            /\ head' = NoHead
       ELSE /\ pc' = "constructed"
            /\ err' = None
            /\ head' = HeadOf(Select(backbone.feat_channels,
                                     args.backbone_indices),
                              args.num_classes, args.down_factor,
                              args.enable_auxiliary_loss)
    /\ UNCHANGED <<backbone, args, image, attention, feat_list, x, grid, feat,
                   output, logit_list>>
    /\ UNCHANGED envvars

(* ---------------------------- ISANet.forward --------------------------- *)
\* feats = self.backbone(x): one feature map per stage the backbone returns
BackboneFeats(bb) == [k \in 1..bb.nfeats |-> [c |-> bb.feat_channels[k]]]

\* feats = [feats[i] for i in self.backbone_indices]
Backbone ==
    /\ pc = "constructed"
    /\ IF SelectOk(backbone.nfeats, backbone_indices)
       THEN /\ pc' = "head"
            /\ feat_list' = Select(BackboneFeats(backbone), backbone_indices)
            /\ err' = err
       ELSE /\ pc' = "raised"
            /\ err' = "IndexError"
            /\ feat_list' = feat_list
    /\ UNCHANGED <<backbone, args, image, backbone_indices, head, attention, x, grid,
                   feat, output, logit_list>>
    /\ UNCHANGED envvars

(* ---------------------------- ISAHead.forward -------------------------- *)
\* C3, C4 = feat_list ; x = self.in_conv(C4)
InConv ==
    /\ pc = "head"
    /\ IF UnpackRaises(feat_list)
       THEN pc' = "raised" /\ err' = "ValueError" /\ x' = x
       ELSE IF feat_list[2].c # head.in_channels
       THEN pc' = "raised" /\ err' = "ConvChannelError" /\ x' = x
       ELSE /\ pc' = "reduced"
            /\ err' = err
            /\ x' = Labels(<<image.n, head.inter_channels, image.h, image.w>>)
    /\ UNCHANGED <<backbone, args, image, backbone_indices, head, attention,
                   feat_list, grid, feat, output, logit_list>>
    /\ UNCHANGED envvars

\* n, c, h, w = x.shape ; P_h, P_w = self.down_factor ; Q_h, Q_w ; pad_h, pad_w
Grid ==
    /\ pc = "reduced"
    /\ IF GridRaises(head.down_factor[1], head.down_factor[2])
       THEN pc' = "raised" /\ err' = "ZeroDivisionError" /\ grid' = grid
       ELSE /\ pc' = "grid"
            /\ err' = err
            /\ grid' = GridOf(x.shape[3], x.shape[4],
                              head.down_factor[1], head.down_factor[2])
    /\ UNCHANGED <<backbone, args, image, backbone_indices, head, attention,
                   feat_list, x, feat, output, logit_list>>
    /\ UNCHANGED envvars

HeadStep(from, to, newfeat) ==
    /\ pc = from
    /\ pc' = to
    /\ feat' = newfeat
    /\ UNCHANGED <<err, backbone, args, image, backbone_indices, head, attention,
                   feat_list, x, grid, output, logit_list>>
    /\ UNCHANGED envvars

P_h == head.down_factor[1]
P_w == head.down_factor[2]

PadStep == HeadStep("grid", "padded", Cells(PadToGrid(x, grid)))

GlobalPartition ==
    HeadStep("padded", "global_in",
             GlobalLayout(feat, x.shape[1], x.shape[2],
                          grid.Q_h, P_h, grid.Q_w, P_w))

GlobalRelation ==
    HeadStep("global_in", "global_out", SelfAttention(attention, feat))

LocalPartition ==
    HeadStep("global_out", "local_in",
             LocalLayout(feat, x.shape[1], x.shape[2],
                         grid.Q_h, P_h, grid.Q_w, P_w))

LocalRelation ==
    HeadStep("local_in", "local_out", SelfAttention(attention, feat))

RecomposeStep ==
    HeadStep("local_out", "recomposed",
             Recompose(feat, x.shape[1], x.shape[2],
                       grid.Q_h, P_h, grid.Q_w, P_w))

CropStep ==
    HeadStep("recomposed", "cropped",
             CropBack(feat, grid, x.shape[3], x.shape[4]))

\* paddle.concat([feat, x], axis=1) needs equal sizes on every other axis
ConcatOk(a, b) ==
    /\ a.shape[1] = b.shape[1]
    /\ a.shape[3] = b.shape[3]
    /\ a.shape[4] = b.shape[4]

\* feat = self.out_conv(paddle.concat([feat, x], axis=1))
\* output = self.cls(feat)
Classify ==
    /\ pc = "cropped"
    /\ IF ~ConcatOk(feat, x)
       THEN pc' = "raised" /\ err' = "ConcatShapeError" /\ output' = output
       ELSE IF feat.shape[2] + x.shape[2] # head.out_conv_in
       THEN pc' = "raised" /\ err' = "ConvChannelError" /\ output' = output
       ELSE /\ pc' = "classified"
            /\ err' = err
            /\ output' = [name |-> "output", c |-> head.num_classes,
                          n |-> x.shape[1], size |-> "feature"]
    /\ UNCHANGED <<backbone, args, image, backbone_indices, head, attention,
                   feat_list, x, grid, feat, logit_list>>
    /\ UNCHANGED envvars

\* the input channel count the first layer of self.aux accepts
AuxAccepts(hd, C3) == C3.c = hd.aux_in

\* if self.enable_auxiliary_loss: auxout = self.aux(C3); return [output, auxout]
\* else: return [output]
Auxiliary ==
    /\ pc = "classified"
    /\ IF ~head.enable_auxiliary_loss
       THEN pc' = "head_returned" /\ err' = err /\ logit_list' = <<output>>
       ELSE IF ~AuxAccepts(head, feat_list[1])
       THEN pc' = "raised" /\ err' = "ConvChannelError"
            /\ logit_list' = logit_list
       ELSE /\ pc' = "head_returned"
            /\ err' = err
            /\ logit_list' = <<output,
                               [name |-> "auxout", c |-> head.num_classes,
                                n |-> x.shape[1], size |-> "feature"]>>
    /\ UNCHANGED <<backbone, args, image, backbone_indices, head, attention,
                   feat_list, x, grid, feat, output>>
    /\ UNCHANGED envvars

\* logit_list = [F.interpolate(logit, x.shape[2:], ...) for logit in logit_list]
Interpolate ==
    /\ pc = "head_returned"
    /\ pc' = "done"
    /\ logit_list' = [k \in 1..Len(logit_list) |->
                        [logit_list[k] EXCEPT !.size = "input"]]
    /\ UNCHANGED <<err, backbone, args, image, backbone_indices, head, attention,
                   feat_list, x, grid, feat, output>>
    /\ UNCHANGED envvars

Forward ==
    \/ Backbone \/ InConv \/ Grid \/ PadStep \/ GlobalPartition
    \/ GlobalRelation \/ LocalPartition \/ LocalRelation \/ RecomposeStep
    \/ CropStep \/ Classify \/ Auxiliary \/ Interpolate

(* --------------------------- get_environ_info -------------------------- *)
\* A string is the sequence of its characters.  A variable of os.environ is a
\* sequence of length 0 when the variable is unset and <<value>> when set.
Unset == <<>>
IsSet(v) == Len(v) = 1

\* 'gpu' in paddle.get_device()
Contains(sub, str) ==
    \E i \in 1..(Len(str) - Len(sub) + 1) :
        SubSeq(str, i, i + Len(sub) - 1) = sub

Digits == <<"0", "1", "2", "3", "4", "5", "6", "7", "8", "9">>
IsDigit(ch) == \E d \in 1..Len(Digits) : Digits[d] = ch
DigitVal(ch) == (CHOOSE d \in 1..Len(Digits) : Digits[d] = ch) - 1

\* int(str): an optional sign followed by decimal digits, anything else raises
IsIntLiteral(str) ==
    LET body == IF str # <<>> /\ Head(str) = "-" THEN Tail(str) ELSE str
    IN  body # <<>> /\ \A i \in 1..Len(body) : IsDigit(body[i])

RECURSIVE ParseDigits(_, _)
ParseDigits(str, acc) ==
    IF str = <<>> THEN acc
    ELSE ParseDigits(Tail(str), acc * 10 + DigitVal(Head(str)))

ParseInt(str) ==
    IF Head(str) = "-" THEN 0 - ParseDigits(Tail(str), 0)
    ELSE ParseDigits(str, 0)

\* the local gpu_nums is bound only inside `if compiled_with_cuda:`
Unbound == -1

\* if 'gpu' in paddle.get_device(): gpu_nums = ParallelEnv().nranks
\* else: gpu_nums = 0
GpuNums(compiled, dev, ranks) ==
    IF compiled
    THEN IF Contains(<<"g", "p", "u">>, dev) THEN ranks ELSE 0
    ELSE Unbound

\* variant: gpu_nums evaluated whatever the left operand is
ReadsGpuNumsAlways(compiled) == TRUE

\* `compiled_with_cuda and gpu_nums` evaluates gpu_nums only when the left
\* operand is true
ReadsGpuNums(compiled) == compiled

\* place = 'gpu' if compiled_with_cuda and gpu_nums else 'cpu'
Place(compiled, gpu_nums) ==
    IF compiled /\ gpu_nums # 0 THEN "gpu" ELSE "cpu"

\* if gpu_nums == 0: os.environ['CUDA_VISIBLE_DEVICES'] = ''
HideDevices(compiled, gpu_nums) == compiled /\ gpu_nums = 0

NoInfo == [place |-> None, num |-> 0]

get_environ_info ==
    /\ env_pc = "call"
    /\ LET gpu_nums == GpuNums(compiled_with_cuda, device, nranks)
           place    == Place(compiled_with_cuda, gpu_nums)
       IN  /\ environ' = IF HideDevices(compiled_with_cuda, gpu_nums)
                         THEN [environ EXCEPT !.CUDA_VISIBLE_DEVICES = << <<>> >>]
                         ELSE environ
           /\ IF ReadsGpuNums(compiled_with_cuda) /\ gpu_nums = Unbound
              THEN env_pc' = "NameError" /\ env_info' = env_info
              ELSE IF IsSet(environ.CPU_NUM) /\ ~IsIntLiteral(environ.CPU_NUM[1])
              THEN env_pc' = "ValueError" /\ env_info' = env_info
              ELSE /\ env_pc' = "returned"
                   /\ env_info' =
                        [place |-> place,
                         num   |-> IF place = "gpu" THEN gpu_nums
                                   ELSE IF IsSet(environ.CPU_NUM)
                                   THEN ParseInt(environ.CPU_NUM[1])
                                   ELSE DefaultCpuNum]
    /\ UNCHANGED <<compiled_with_cuda, device, nranks>>
    /\ UNCHANGED netvars

(* --------------------------- specifications ---------------------------- *)
EmptyTensor == Tensor(<<>>, <<>>)
NoGrid == [Q_h |-> 0, Q_w |-> 0, pad_h |-> 0, pad_w |-> 0]
NoOutput == [name |-> None, c |-> 0, n |-> 0, size |-> None]

EnvIdle ==
    /\ compiled_with_cuda = FALSE
    /\ device = <<"c", "p", "u">>
    /\ nranks = 0
    /\ environ = [CPU_NUM |-> Unset, CUDA_VISIBLE_DEVICES |-> Unset]
    /\ env_info = NoInfo
    /\ env_pc = "call"

ForwardIdle ==
    /\ err = None
    /\ feat_list = <<>>
    /\ x = EmptyTensor
    /\ grid = NoGrid
    /\ feat = EmptyTensor
    /\ output = NoOutput
    /\ logit_list = <<>>

\* backbones of three stages; the output list may be shorter than feat_channels
Backbones ==
    {[feat_channels |-> <<512, lo, hi>>, nfeats |-> nf] :
        lo \in {AuxInChannels, 256}, hi \in 4..MaxChan, nf \in {2, 3}}

SmallImages == {[n |-> 1, h |-> 1, w |-> 2], [n |-> 2, h |-> 3, w |-> 2]}

\* Spec: a backbone and an input are given, the network is constructed with any
\* configuration and called once.
Init ==
    /\ pc = "new"
    /\ backbone \in Backbones
    /\ args \in Arguments
    /\ image \in SmallImages
    /\ backbone_indices = <<>>
    /\ head = NoHead
    /\ attention \in AttentionModes
    /\ ForwardIdle
    /\ EnvIdle

Next == Construct \/ Forward

Spec == Init /\ [][Next]_vars

\* SpecLayout: a network constructed with backbone_indices (1, 2) on a backbone
\* whose stages match, every group factor and every input size within the
\* bounds, plus the default factor (8, 8) on a 13 x 13 map.
LayoutImages ==
    {[n |-> n, h |-> h, w |-> w] : n \in 1..MaxN, h \in 1..MaxH, w \in 1..MaxH}
LayoutFactors == (1..MaxP) \X (1..MaxP)
LayoutCases ==
    (LayoutImages \X LayoutFactors)
    \cup {<<[n |-> 1, h |-> 13, w |-> 13],
            <<DefaultDownFactor, DefaultDownFactor>> >>}

InitLayout ==
    /\ pc = "constructed"
    /\ backbone \in {[feat_channels |-> <<512, AuxInChannels, hi>>, nfeats |-> 3] :
                        hi \in {4, 8}}
    /\ backbone_indices = <<1, 2>>
    /\ attention \in AttentionModes
    /\ \E case \in LayoutCases :
          /\ image = case[1]
          /\ args = [backbone_indices |-> <<1, 2>>, down_factor |-> case[2],
                     num_classes |-> 19, enable_auxiliary_loss |-> TRUE]
    /\ head = HeadOf(Select(backbone.feat_channels, args.backbone_indices),
                     args.num_classes, args.down_factor,
                     args.enable_auxiliary_loss)
    /\ ForwardIdle
    /\ EnvIdle

SpecLayout == InitLayout /\ [][Forward]_vars

\* SpecEnv: get_environ_info called once in any environment.
Devices ==
    {<<"c", "p", "u">>, <<"g", "p", "u", ":", "0">>,
     <<"g", "p", "u", ":", "1">>, <<"x", "p", "u", ":", "0">>}
CpuNumValues ==
    {Unset, << <<"1">> >>, << <<"4">> >>, << <<"1", "2">> >>,
     << <<"-", "1">> >>, << <<"a">> >>}
VisibleValues == {Unset, << <<"0">> >>, << <<"0", ",", "1">> >>}

InitEnv ==
    /\ pc = "new"
    /\ backbone = [feat_channels |-> <<512, AuxInChannels, 8>>, nfeats |-> 3]
    /\ args = [backbone_indices |-> <<1, 2>>,
               down_factor |-> <<DefaultDownFactor, DefaultDownFactor>>,
               num_classes |-> 19, enable_auxiliary_loss |-> TRUE]
    /\ image = [n |-> 1, h |-> 1, w |-> 1]
    /\ backbone_indices = <<>>
    /\ head = NoHead
    /\ attention = "identity"
    /\ ForwardIdle
    /\ compiled_with_cuda \in BOOLEAN
    /\ device \in Devices
    /\ nranks \in 0..MaxRanks
    /\ environ \in [CPU_NUM : CpuNumValues, CUDA_VISIBLE_DEVICES : VisibleValues]
    /\ env_info = NoInfo
    /\ env_pc = "call"

SpecEnv == InitEnv /\ [][get_environ_info]_vars

(* ------------------------------ properties ----------------------------- *)
\* shape of the padded map: (n, c, Q_h * P_h, Q_w * P_w)
PaddedShape == <<x.shape[1], x.shape[2], grid.Q_h * P_h, grid.Q_w * P_w>>

\* floor(d / 2), written without division
FloorHalf(d) == CHOOSE t \in 0..d : 2 * t <= d /\ d <= 2 * t + 1

\* C1 -- Round-trip law: with both attention passes the identity, the sequence
\* pad, global layout, local layout, recomposition, crop returns a tensor of
\* the shape of x whose element at every index is the element of x there.
RoundTrip ==
    (pc = "cropped" /\ attention = "identity") =>
        /\ feat.shape = x.shape
        /\ Values(feat) = x.data

RoundTripWitness ==
    /\ pc = "cropped" /\ attention = "identity"
    /\ x.shape[1] >= 2 /\ x.shape[2] >= 2
    /\ grid.Q_h >= 2 /\ grid.Q_w >= 2
    /\ grid.pad_h >= 2 /\ grid.pad_w >= 2
    /\ Values(feat) = x.data

\* C2 -- Padding invariant: the padded height and width are Q_h * P_h and
\* Q_w * P_w, the least multiples of P_h and P_w that hold h and w (deficits
\* in 0..P-1); x sits floor(deficit / 2) below the top and right of the left
\* edge, the remaining ceil(deficit / 2) follows it, and the border is zero;
\* h = 13 with P_h = 8 gives Q_h = 2 and a deficit of 3 split 1 and 2; with
\* both deficits 0 the map is x itself.
PaddingInvariant ==
    pc = "padded" =>
        LET h    == x.shape[3]
            w    == x.shape[4]
            dh   == feat.shape[3] - h
            dw   == feat.shape[4] - w
            top  == FloorHalf(dh)
            left == FloorHalf(dw)
        IN  /\ feat.shape = PaddedShape
            /\ 0 <= dh /\ dh < P_h /\ 0 <= dw /\ dw < P_w
            /\ grid.pad_h = dh /\ grid.pad_w = dw
            /\ \A k \in 1..Len(feat.data) :
                  LET j  == Unravel(k - 1, feat.shape)
                      hh == j[3] - top
                      ww == j[4] - left
                  IN  feat.data[k].v =
                        IF hh >= 0 /\ hh < h /\ ww >= 0 /\ ww < w
                        THEN x.data[Ravel(<<j[1], j[2], hh, ww>>, x.shape) + 1]
                        ELSE 0
            /\ (h = 13 /\ P_h = 8) =>
                  /\ grid.Q_h = 2 /\ dh = 3 /\ top = 1 /\ dh - top = 2
                  /\ feat.data[Ravel(<<0, 0, 0, left>>, feat.shape) + 1].v = 0
                  /\ feat.data[Ravel(<<0, 0, 1, left>>, feat.shape) + 1].v
                        = x.data[1]
                  /\ feat.data[Ravel(<<0, 0, 13, left>>, feat.shape) + 1].v # 0
                  /\ feat.data[Ravel(<<0, 0, 14, left>>, feat.shape) + 1].v = 0
                  /\ feat.data[Ravel(<<0, 0, 15, left>>, feat.shape) + 1].v = 0
            /\ (dh = 0 /\ dw = 0) => Values(feat) = x.data

PaddingWitness ==
    /\ pc = "padded"
    /\ x.shape[3] = 13 /\ P_h = 8
    /\ feat.shape[3] = 16 /\ grid.pad_h = 3

\* the cells of one batch item of `feat` attend to each other and to no others
SliceLen == Prod(Tail(feat.shape))
SliceHead(k) == feat.data[((k - 1) \div SliceLen) * SliceLen + 1]
\* image and intra-group offset, image and group, of a padded flat offset
OffsetKey(a) ==
    LET j == Unravel(a, PaddedShape) IN <<j[1], j[3] % P_h, j[4] % P_w>>
GroupKey(a) ==
    LET j == Unravel(a, PaddedShape) IN <<j[1], j[3] \div P_h, j[4] \div P_w>>

\* C7 -- Global pass grouping: the tensor handed to global_relation has shape
\* (n * P_h * P_w, c, Q_h, Q_w) and holds padded position (h, w) of image n in
\* slice (n, h mod P_h, w mod P_w) at coordinate (h div P_h, w div P_w), for
\* every channel; two cells are in the same slice, and so attend to each
\* other, iff they are of the same image and the same intra-group offset.
GlobalGrouping ==
    pc = "global_in" =>
        /\ feat.shape = <<x.shape[1] * P_h * P_w, x.shape[2],
                          grid.Q_h, grid.Q_w>>
        /\ \A a \in 0..(Prod(PaddedShape) - 1) :
              LET j == Unravel(a, PaddedShape)
                  slice == (j[1] * P_h + (j[3] % P_h)) * P_w + (j[4] % P_w)
              IN  feat.data[Ravel(<<slice, j[2], j[3] \div P_h, j[4] \div P_w>>,
                                  feat.shape) + 1].at = a
        /\ \A k \in 1..Len(feat.data) :
              OffsetKey(feat.data[k].at) = OffsetKey(SliceHead(k).at)
        /\ \A b1, b2 \in 1..feat.shape[1] :
              OffsetKey(SliceHead((b1 - 1) * SliceLen + 1).at)
                = OffsetKey(SliceHead((b2 - 1) * SliceLen + 1).at) => b1 = b2

GlobalGroupingWitness ==
    /\ pc = "global_in"
    /\ x.shape[1] >= 2 /\ x.shape[2] >= 2
    /\ P_h >= 2 /\ P_w >= 2 /\ P_h # P_w
    /\ grid.Q_h >= 2 /\ grid.Q_w >= 2
    /\ grid.pad_h > 0

\* C8 -- Local pass grouping: the tensor handed to local_relation has shape
\* (n * Q_h * Q_w, c, P_h, P_w) and holds the cell of padded position (h, w)
\* of image n in slice (n, h div P_h, w div P_w) at coordinate
\* (h mod P_h, w mod P_w), for every channel; two cells are in the same slice,
\* and so attend to each other, iff they lie in the same P_h x P_w group of
\* the same image.
LocalGrouping ==
    pc = "local_in" =>
        /\ feat.shape = <<x.shape[1] * grid.Q_h * grid.Q_w, x.shape[2],
                          P_h, P_w>>
        /\ \A a \in 0..(Prod(PaddedShape) - 1) :
              LET j == Unravel(a, PaddedShape)
                  slice == (j[1] * grid.Q_h + (j[3] \div P_h)) * grid.Q_w
                           + (j[4] \div P_w)
              IN  feat.data[Ravel(<<slice, j[2], j[3] % P_h, j[4] % P_w>>,
                                  feat.shape) + 1].at = a
        /\ \A k \in 1..Len(feat.data) :
              GroupKey(feat.data[k].at) = GroupKey(SliceHead(k).at)
        /\ \A b1, b2 \in 1..feat.shape[1] :
              GroupKey(SliceHead((b1 - 1) * SliceLen + 1).at)
                = GroupKey(SliceHead((b2 - 1) * SliceLen + 1).at) => b1 = b2

LocalGroupingWitness ==
    /\ pc = "local_in" /\ attention = "mix"
    /\ x.shape[1] >= 2 /\ x.shape[2] >= 2
    /\ P_h >= 2 /\ P_w >= 2 /\ P_h # P_w
    /\ grid.Q_h >= 2 /\ grid.Q_w >= 2
    /\ grid.pad_w > 0

\* what the constructor selects, defined when the selection does not raise
InChannels == Select(backbone.feat_channels, args.backbone_indices)
HighChannels == PyIndex(InChannels, -1)
Built == pc # "new" /\ ~CtorRaises(backbone, args.backbone_indices)
ZeroFactor == args.down_factor[1] <= 0 \/ args.down_factor[2] <= 0

\* C3 -- Divisibility guard, as claimed: constructing the decoder on a highest
\* stage whose channel count is not divisible by 4 raises ConfigurationError
\* before any layer is built.
DivisibilityGuard ==
    (Built /\ HighChannels % 4 # 0) =>
        (pc = "raised" /\ err = "ConfigurationError" /\ ~head.built)

\* C3 -- as amended: the constructor has no divisibility check; for every
\* highest-stage channel count C >= 4, divisible by 4 or not, it builds the
\* head with inter_channels = floor(C / 4) and out_conv taking twice that, and
\* no ConfigurationError is ever raised.
NoDivisibilityGuard ==
    /\ err # "ConfigurationError"
    /\ Built =>
          /\ head.built
          /\ head.in_channels = HighChannels
          /\ 4 * head.inter_channels <= HighChannels
          /\ HighChannels < 4 * head.inter_channels + 4
          /\ head.out_conv_in = 2 * head.inter_channels

NoDivisibilityGuardWitness ==
    /\ pc = "done"
    /\ head.in_channels % 4 # 0
    /\ head.inter_channels = 1
    /\ x.shape[2] = 1

\* C4 -- Group-factor guard, as claimed: constructing the decoder with a
\* non-positive entry in the group factor fails with ConfigurationError, so no
\* head with such a factor exists and no forward call is reached with one.
GroupFactorGuard ==
    (Built /\ ZeroFactor) =>
        (pc = "raised" /\ err = "ConfigurationError" /\ ~head.built)

\* C4 -- as amended: the constructor does not check the group factor; with a
\* zero entry the head is built and stores the factor unchanged, the forward
\* call is reached, and it ends no later than the computation of Q_h, Q_w: once
\* x has been computed the call raises ZeroDivisionError, before any padding,
\* attention or score map.
ZeroFactorReachesForward ==
    (Built /\ ZeroFactor) =>
        /\ head.built
        /\ head.down_factor = args.down_factor
        /\ pc \in {"constructed", "head", "reduced", "raised"}
        /\ (pc = "raised" /\ x # EmptyTensor) => err = "ZeroDivisionError"
        /\ pc = "raised" =>
              err \in {"IndexError", "ValueError", "ConvChannelError",
                       "ZeroDivisionError"}
        /\ feat = EmptyTensor
        /\ logit_list = <<>>

ZeroFactorWitness ==
    /\ pc = "raised" /\ err = "ZeroDivisionError"
    /\ head.built
    /\ head.down_factor = <<2, 0>>
    /\ x # EmptyTensor

\* the selected stages are not both in the list the backbone returns
StageMismatch ==
    \/ Len(args.backbone_indices) # 2
    \/ ~SelectOk(backbone.nfeats, args.backbone_indices)

\* C6 -- Stage-count guard, as claimed: when the backbone's output list does
\* not contain the two selected stages, the forward call fails with a
\* ShapeMismatchError and produces no score map.
StageCountGuard ==
    (Built /\ StageMismatch /\ pc \notin {"constructed", "head"}) =>
        (pc = "raised" /\ err = "ShapeMismatchError" /\ logit_list = <<>>)

\* C6 -- as amended: in that case the forward call fails with Python's
\* IndexError (a selected index outside the returned list) or, when the indices
\* are in range but are not two, ValueError from the unpacking; x is never
\* computed and no score map is produced.
StageCountFailure ==
    (Built /\ StageMismatch /\ pc \notin {"constructed", "head"}) =>
        /\ pc = "raised"
        /\ err = IF SelectOk(backbone.nfeats, args.backbone_indices)
                 THEN "ValueError" ELSE "IndexError"
        /\ x = EmptyTensor
        /\ output = NoOutput
        /\ logit_list = <<>>

StageCountWitness ==
    /\ pc = "raised" /\ err = "IndexError"
    /\ head.built
    /\ backbone_indices = <<1, 2>>
    /\ backbone.nfeats = 2

\* a construction and call with nothing wrong in it: two stages selected, all
\* of them returned by the backbone, positive group factor
ConsistentUse ==
    /\ Built
    /\ Len(args.backbone_indices) = 2
    /\ backbone.nfeats = Len(backbone.feat_channels)
    /\ ~ZeroFactor

\* C5 -- Auxiliary branch toggle: the forward call returns exactly one score
\* map when enable_auxiliary_loss is False and exactly two, primary first and
\* auxiliary second, when it is True.
AuxiliaryToggle ==
    (ConsistentUse /\ pc \in {"raised", "done"}) =>
        /\ pc = "done"
        /\ Len(logit_list) = IF args.enable_auxiliary_loss THEN 2 ELSE 1
        /\ logit_list[1].name = "output"
        /\ args.enable_auxiliary_loss => logit_list[2].name = "auxout"

\* C9 -- Auxiliary branch input: the first layer of the auxiliary branch takes
\* the channel count of the lower selected stage, in_channels[0], whatever the
\* backbone publishes for it.
AuxiliaryBranchInput ==
    (Built /\ Len(args.backbone_indices) = 2 /\ args.enable_auxiliary_loss) =>
        head.aux_in = InChannels[1]

\* C10 -- Device selection: called with CPU_NUM unset or an integer,
\* get_environ_info returns without raising; place is 'gpu' iff CUDA is
\* compiled in, the device name contains 'gpu' and nranks > 0, else 'cpu'; num
\* is nranks on 'gpu' and CPU_NUM (1 when unset) on 'cpu'; and
\* CUDA_VISIBLE_DEVICES becomes '' exactly when CUDA is compiled in and the GPU
\* count is 0, and is left as it was otherwise.
GpuDevice ==
    device \in {<<"g", "p", "u", ":", "0">>, <<"g", "p", "u", ":", "1">>}
UsesGpu == compiled_with_cuda /\ GpuDevice /\ nranks > 0
CpuNumTable ==
    << <<Unset, 1>>, << << <<"1">> >>, 1>>, << << <<"4">> >>, 4>>,
       << << <<"1", "2">> >>, 12>>, << << <<"-", "1">> >>, -1>> >>
CpuNumIsInt == \E i \in 1..Len(CpuNumTable) : CpuNumTable[i][1] = environ.CPU_NUM
CpuNumExpected ==
    CpuNumTable[CHOOSE i \in 1..Len(CpuNumTable) :
                    CpuNumTable[i][1] = environ.CPU_NUM][2]

DeviceSelection ==
    [][(env_pc = "call" /\ env_pc' # "call" /\ CpuNumIsInt) =>
          /\ env_pc' = "returned"
          /\ env_info'.place = IF UsesGpu THEN "gpu" ELSE "cpu"
          /\ env_info'.num = IF UsesGpu THEN nranks ELSE CpuNumExpected
          /\ environ' =
                IF compiled_with_cuda /\ ~(GpuDevice /\ nranks > 0)
                THEN [environ EXCEPT !.CUDA_VISIBLE_DEVICES = << <<>> >>]
                ELSE environ]_vars

DeviceSelectionWitness ==
    /\ env_pc = "returned"
    /\ ~compiled_with_cuda /\ GpuDevice /\ nranks > 0
    /\ env_info.place = "cpu" /\ env_info.num = 12
    /\ environ.CUDA_VISIBLE_DEVICES = << <<"0", ",", "1">> >>

====
